---- MODULE Spec2Model ----
(***************************************************************************)
(* Model of the CareLens document-extraction pipeline                      *)
(* (backend/app/services/extraction_service.py and its collaborators       *)
(* lab_mapper.py, unit_converter.py, pdf_parser.py, ocr_engine.py).        *)
(*                                                                         *)
(* Number representation.  Python floats are modelled by exact fixed-point *)
(* integers:                                                               *)
(*   - confidences and table accuracies in thousandths (0.9 -> 900);       *)
(*   - lab values and catalog ranges in thousandths of the unit            *)
(*     (145 mg/dL -> 145000);                                              *)
(*   - conversion factors in ten-thousandths (18.018 -> 180180), the one   *)
(*     five-decimal factor of the thyroid family in hundred-thousandths;   *)
(*     every factor carries its scale.                                     *)
(* round(x, k) is modelled on the exact rational (round half to even).     *)
(***************************************************************************)
EXTENDS Integers, Sequences, FiniteSets, TLC

VARIABLES
    pc,            \* position of the extract_document coroutine
    file_type,     \* file_metadata["file_type"] as declared by the caller
    fileExists,    \* whether file_path names a readable file
    results,       \* the extraction_results dict of extract_document
    stageOutcome,  \* history: how each external stage call ended
    yielded,       \* history: whether a stage yielded at least one lab value
    hPc,           \* harness for the pure functions: position
    hIn,           \* harness: the inputs drawn
    hOut,          \* harness: the outputs computed
    tasks,         \* extract_batch: the extract_document coroutines it created
    batch          \* extract_batch: its own position and locals

vars == <<pc, file_type, fileExists, results, stageOutcome, yielded,
          hPc, hIn, hOut, tasks, batch>>

pipelineVars == <<pc, file_type, fileExists, results, stageOutcome, yielded>>
harnessVars == <<hPc, hIn, hOut>>
batchVars == <<tasks, batch>>

(***************************************************************************)
(* Bounds of the model.                                                    *)
(***************************************************************************)
\* raw rows / regex matches one stage may produce before de-duplication
MaxRaw == 2

(***************************************************************************)
(* Generic helpers.                                                        *)
(***************************************************************************)
SeqsUpTo(S, n) == UNION {[1..k -> S] : k \in 0..n}

Range(s) == {s[i] : i \in 1..Len(s)}

Min(a, b) == IF a <= b THEN a ELSE b
Max(a, b) == IF a >= b THEN a ELSE b

\* Python round() of the exact rational num/den (den > 0) to an integer:
\* nearest, ties to even.
RoundHalfEven(num, den) ==
    LET q == num \div den
        r == num % den
    IN  IF 2 * r < den THEN q
        ELSE IF 2 * r > den THEN q + 1
        ELSE IF q % 2 = 0 THEN q ELSE q + 1

RECURSIVE SumConfidence(_)
SumConfidence(s) ==
    IF s = <<>> THEN 0 ELSE s[1].confidence + SumConfidence(Tail(s))

(***************************************************************************)
(* LabMapper catalog (lab_mapper.py), restricted to three tests.           *)
(***************************************************************************)
\* the tests of the model, in the iteration order of lab_patterns
TestOrder == <<"glucose_fasting", "hba1c", "creatinine">>
Tests == Range(TestOrder)

TestIndex(t) == CHOOSE i \in 1..Len(TestOrder) : TestOrder[i] = t

\* _load_reference_ranges: min, max (thousandths of the unit) and unit
reference_ranges(t) ==
    CASE t = "glucose_fasting" -> [min |-> 70000, max |-> 100000, unit |-> "mg/dL"]
      [] t = "hba1c"           -> [min |-> 4000,  max |-> 5600,   unit |-> "%"]
      [] t = "creatinine"      -> [min |-> 600,   max |-> 1200,   unit |-> "mg/dL"]

\* _get_default_unit
get_default_unit(t) == reference_ranges(t).unit

\* get_reference_range: the f"{min}-{max} {unit}" string
get_reference_range(t) ==
    CASE t = "glucose_fasting" -> "70-100 mg/dL"
      [] t = "hba1c"           -> "4.0-5.6 %"
      [] t = "creatinine"      -> "0.6-1.2 mg/dL"

\* is_value_abnormal: compares the number against min/max; the unit argument
\* is accepted and never read.  "None" only for a test outside the catalog.
is_value_abnormal(t, value, unit) ==
    IF t \notin Tests THEN "None"
    ELSE IF value < reference_ranges(t).min THEN "True"
    ELSE IF value > reference_ranges(t).max THEN "True"
    ELSE "False"

\* The regex patterns of _load_lab_patterns used by the model, by their index
\* in the test's pattern list:
\*   glucose_fasting 1: fasting\s+glucose...   3: FBG...
\*   hba1c           1: hba1c...               4: a1c...
\*   creatinine      1: creatinine...          3: cr...
PatternIdx(t) ==
    CASE t = "glucose_fasting" -> {1, 3}
      [] t = "hba1c"           -> {1, 4}
      [] t = "creatinine"      -> {1, 3}

\* "fasting" in pattern.lower()
PatternHasFasting(t, p) == t = "glucose_fasting" /\ p = 1

\* test_name in pattern.lower()
PatternHasTestName(t, p) == t \in {"hba1c", "creatinine"} /\ p = 1

(***************************************************************************)
(* UnitConverter (unit_converter.py).                                      *)
(***************************************************************************)
\* _load_standard_units
standard_units(t) ==
    CASE t = "glucose_fasting" -> "mg/dL"
      [] t = "hba1c"           -> "%"
      [] t = "creatinine"      -> "mg/dL"
      [] t = "tsh"             -> "mIU/L"
      [] t = "t3"              -> "ng/dL"
      [] t = "t4"              -> "μg/dL"
      [] OTHER                 -> ""

\* unit.lower().replace(" ", "") on the unit spellings of the model
LowerStrip(u) ==
    CASE u = "mg/dL"   -> "mg/dl"
      [] u = "mg / dL" -> "mg/dl"
      [] u = "MG/DL"   -> "mg/dl"
      [] u = "Percent" -> "percent"
      [] u = "g/L"     -> "g/l"
      [] u = "g/dL"    -> "g/dl"
      [] u = "mmol/L"  -> "mmol/l"
      [] u = "umol/L"  -> "umol/l"
      [] u = "μmol/L"  -> "μmol/l"
      [] u = "μg/dL"   -> "μg/dl"
      [] u = "ug/dL"   -> "ug/dl"
      [] u = "ng/dL"   -> "ng/dl"
      [] u = "mIU/L"   -> "miu/l"
      [] u = "U/L"     -> "u/l"
      [] u = "K/μL"    -> "k/μl"
      [] u = "ng/mL"   -> "ng/ml"
      [] u = "pg/mL"   -> "pg/ml"
      [] u = "nmol/L"  -> "nmol/l"
      [] u = "pmol/L"  -> "pmol/l"
      [] OTHER         -> u

\* the unit_mappings dict of _normalize_unit, with .get(normalized, normalized)
unit_mappings(n) ==
    CASE n = "mg/dl" -> "mg/dL"   [] n = "mgdl" -> "mg/dL"   [] n = "mg%" -> "mg/dL"
      [] n = "g/dl" -> "g/dL"     [] n = "gdl" -> "g/dL"     [] n = "g%" -> "g/dL"
      [] n = "ug/dl" -> "μg/dL"   [] n = "ugdl" -> "μg/dL"   [] n = "mcg/dl" -> "μg/dL"
      [] n = "ng/dl" -> "ng/dL"   [] n = "ngdl" -> "ng/dL"
      [] n = "mmol/l" -> "mmol/L" [] n = "mmoll" -> "mmol/L"
      [] n = "umol/l" -> "μmol/L" [] n = "umoll" -> "μmol/L" [] n = "μmol/l" -> "μmol/L"
      [] n = "nmol/l" -> "nmol/L" [] n = "nmoll" -> "nmol/L"
      [] n = "pmol/l" -> "pmol/L" [] n = "pmoll" -> "pmol/L"
      [] n = "miu/l" -> "mIU/L"   [] n = "miul" -> "mIU/L"
      [] n = "u/l" -> "U/L"       [] n = "ul" -> "U/L"
      [] n = "iu/l" -> "U/L"      [] n = "iul" -> "U/L"
      [] n = "k/ul" -> "K/μL"     [] n = "k/μl" -> "K/μL"
      [] n = "thousand/ul" -> "K/μL" [] n = "thousand/μl" -> "K/μL"
      [] n = "percent" -> "%"     [] n = "percentage" -> "%"
      [] n = "ng/ml" -> "ng/mL"   [] n = "ngml" -> "ng/mL"
      [] n = "pg/ml" -> "pg/mL"   [] n = "pgml" -> "pg/mL"
      [] OTHER -> n

\* _normalize_unit
normalize_unit(unit) == IF unit = "" THEN "" ELSE unit_mappings(LowerStrip(unit))

\* _get_conversion_category ("" for None)
get_conversion_category(t) ==
    CASE t \in {"glucose_fasting", "glucose_random"} -> "glucose"
      [] t = "creatinine"                            -> "creatinine"
      [] t \in {"tsh", "t3", "t4", "free_t3", "free_t4"} -> "thyroid"
      [] OTHER                                       -> ""

\* _load_conversion_factors, the families of the model's tests:
\* conversion_factors[category][from_unit].get(to_unit): the factor is
\* factor / scale (scale 10000, or 100000 for a five-decimal factor).
\* has_from: from_unit is a key of the family; found: to_unit is a key
\* of conversion_factors[category][from_unit].
conversion_factors(category, from_unit, to_unit) ==
    LET F(f) == [has_from |-> TRUE, found |-> TRUE, factor |-> f, scale |-> 10000]
        F5(f) == [has_from |-> TRUE, found |-> TRUE, factor |-> f, scale |-> 100000]
        NoTarget == [has_from |-> TRUE, found |-> FALSE, factor |-> 0, scale |-> 10000]
        NoSource == [has_from |-> FALSE, found |-> FALSE, factor |-> 0, scale |-> 10000]
    IN  CASE category = "glucose" /\ from_unit = "mg/dL" ->
               (CASE to_unit = "mmol/L" -> F(555) [] to_unit = "mg/dL" -> F(10000)
                  [] OTHER -> NoTarget)
          [] category = "glucose" /\ from_unit = "mmol/L" ->
               (CASE to_unit = "mg/dL" -> F(180180) [] to_unit = "mmol/L" -> F(10000)
                  [] OTHER -> NoTarget)
          [] category = "creatinine" /\ from_unit = "mg/dL" ->
               (CASE to_unit = "μmol/L" -> F(884000) [] to_unit = "mg/dL" -> F(10000)
                  [] to_unit = "umol/L" -> F(884000) [] OTHER -> NoTarget)
          [] category = "creatinine" /\ from_unit = "μmol/L" ->
               (CASE to_unit = "mg/dL" -> F(113) [] to_unit = "μmol/L" -> F(10000)
                  [] OTHER -> NoTarget)
          [] category = "creatinine" /\ from_unit = "umol/L" ->
               (CASE to_unit = "mg/dL" -> F(113) [] to_unit = "umol/L" -> F(10000)
                  [] to_unit = "μmol/L" -> F(10000) [] OTHER -> NoTarget)
          [] category = "thyroid" /\ from_unit = "ng/dL" ->
               (CASE to_unit = "nmol/L" -> F5(1281) [] to_unit = "ng/dL" -> F(10000)
                  [] to_unit = "ng/ml" -> F(100) [] OTHER -> NoTarget)
          [] category = "thyroid" /\ from_unit = "nmol/L" ->
               (CASE to_unit = "ng/dL" -> F(781000) [] to_unit = "nmol/L" -> F(10000)
                  [] OTHER -> NoTarget)
          [] category = "thyroid" /\ from_unit = "ng/ml" ->
               (CASE to_unit = "ng/dL" -> F(1000000) [] to_unit = "ng/ml" -> F(10000)
                  [] OTHER -> NoTarget)
          [] category = "thyroid" /\ from_unit = "μg/dL" ->
               (CASE to_unit = "pmol/L" -> F(128700) [] to_unit = "μg/dL" -> F(10000)
                  [] to_unit = "ug/dL" -> F(10000) [] OTHER -> NoTarget)
          [] category = "thyroid" /\ from_unit = "ug/dL" ->
               (CASE to_unit = "μg/dL" -> F(10000) [] to_unit = "ug/dL" -> F(10000)
                  [] OTHER -> NoTarget)
          [] category = "thyroid" /\ from_unit = "pmol/L" ->
               (CASE to_unit = "μg/dL" -> F(777) [] to_unit = "pmol/L" -> F(10000)
                  [] OTHER -> NoTarget)
          [] OTHER -> NoSource

\* precision_map of _round_to_precision as the rounding step in thousandths
\* of the unit: 0 decimals -> 1000, 1 decimal -> 100, 2 decimals -> 10,
\* 3 decimals -> 1
\* (.get(test_name, 2) for an unlisted test).
PrecisionStep(t) ==
    CASE t = "glucose_fasting" -> 1000
      [] t = "hba1c"           -> 100
      [] t = "creatinine"      -> 10
      [] t = "tsh"             -> 1
      [] t = "t3"              -> 1000
      [] t = "t4"              -> 100
      [] OTHER                 -> 10

\* value * conversion_factor followed by _round_to_precision:
\* value in thousandths, the factor being cf.factor / cf.scale.
ConvertAndRound(t, value, cf) ==
    RoundHalfEven(value * cf.factor, cf.scale * PrecisionStep(t)) * PrecisionStep(t)

\* convert_to_standard_unit; ok = FALSE models the None return.
convert_to_standard_unit(t, value, current_unit) ==
    LET standard_unit == standard_units(t)
        None == [ok |-> FALSE, value |-> value, unit |-> current_unit,
                 converted |-> "absent"]
        normalized_current == normalize_unit(current_unit)
        normalized_standard == normalize_unit(standard_unit)
        category == get_conversion_category(t)
        cf == conversion_factors(category, normalized_current, normalized_standard)
    IN  IF standard_unit = "" THEN None
        ELSE IF normalized_current = normalized_standard
             THEN [ok |-> TRUE, value |-> value, unit |-> standard_unit,
                   converted |-> "False"]
        ELSE IF category = "" THEN None
        ELSE IF ~cf.has_from THEN None
        ELSE IF ~cf.found THEN None
        ELSE [ok |-> TRUE, value |-> ConvertAndRound(t, value, cf),
              unit |-> standard_unit, converted |-> "True"]

\* convert_between_units; ok = FALSE models the None return.  The product
\* value * conversion_factor is not rounded: it is kept as the exact
\* fraction num / den of a thousandth of the unit.
convert_between_units(value, from_unit, to_unit, test_category) ==
    LET norm_from == normalize_unit(from_unit)
        norm_to == normalize_unit(to_unit)
        cf == conversion_factors(test_category, norm_from, norm_to)
        None == [ok |-> FALSE, num |-> value, den |-> 1, unit |-> from_unit,
                 converted |-> "absent"]
    IN  IF norm_from = norm_to
        THEN [ok |-> TRUE, num |-> value, den |-> 1, unit |-> to_unit,
              converted |-> "False"]
        ELSE IF ~cf.has_from THEN None
        ELSE IF ~cf.found THEN None
        ELSE [ok |-> TRUE, num |-> value * cf.factor, den |-> cf.scale,
              unit |-> to_unit, converted |-> "True"]

(***************************************************************************)
(* LabMapper extraction (lab_mapper.py).                                   *)
(***************************************************************************)
\* confidence = 0.5  # Base confidence
BaseConfidence == 500
\* confidence += 0.2 (pattern holds "fasting"; pattern holds the test name)
PatternBoost == 200
\* confidence += 0.1 (unit in context; reference-range word in context)
ContextBoost == 100
\* confidence -= 0.3 (value far outside the catalog range)
ImplausiblePenalty == 300
\* return max(0.1, min(1.0, confidence))
MinTextConfidence == 100
MaxConfidence == 1000
\* confidence = min(0.9, table.get("accuracy", 0.8))
TableCap == 900
\* confidence_modifier=0.8 of _extract_with_ocr; the default of extract_from_text
OcrModifier == 800
TextModifier == 1000

\* What the document reads for a test in a stage: the number the regex or the
\* table cell yields and the unit token near it.  The table writes glucose in
\* mmol/L and creatinine in umol/L; the text layer is in canonical units; the
\* OCR transcript misreads glucose (1450) and picks up "mmol/L" from a
\* neighbouring line for hba1c and creatinine.
Reading(stage, t) ==
    CASE stage = "tables" /\ t = "glucose_fasting" -> [value |-> 8000,    unit |-> "mmol/L"]
      [] stage = "tables" /\ t = "hba1c"           -> [value |-> 7200,    unit |-> "%"]
      [] stage = "tables" /\ t = "creatinine"      -> [value |-> 88000,   unit |-> "umol/L"]
      [] stage = "text"   /\ t = "glucose_fasting" -> [value |-> 145000,  unit |-> "mg/dL"]
      [] stage = "text"   /\ t = "hba1c"           -> [value |-> 5400,    unit |-> "%"]
      [] stage = "text"   /\ t = "creatinine"      -> [value |-> 1100,    unit |-> "mg/dL"]
      [] stage = "ocr"    /\ t = "glucose_fasting" -> [value |-> 1450000, unit |-> "mg/dL"]
      [] stage = "ocr"    /\ t = "hba1c"           -> [value |-> 7200,    unit |-> "mmol/L"]
      [] stage = "ocr"    /\ t = "creatinine"      -> [value |-> 88000,   unit |-> "mmol/L"]

\* The +-50 character context of a match: the unit token in it ("" for none)
\* and whether a reference-range word (normal, high, low, range) is in it.
BareContext == [unit |-> "", range_word |-> FALSE]
RichContext(stage, t) == [unit |-> Reading(stage, t).unit, range_word |-> TRUE]

\* a regex match of extract_from_text: test, pattern index, context, number
TextMatches(stage) ==
    UNION {[test_name : {t}, pattern : PatternIdx(t),
            context : {BareContext, RichContext(stage, t)},
            value : {Reading(stage, t).value}] : t \in Tests}

\* the accuracy figures a detected table may carry (thousandths): camelot
\* reports a percentage (99.02), the scale the cap expects (0.45), and a
\* figure below zero
TableAccuracies == {-5000, 450, 99020}

\* a recognised table row: the test named in the row and its table's accuracy
TableRows == [test_name : Tests, accuracy : TableAccuracies]

\* _detect_unit
detect_unit(context, t) ==
    IF context.unit # "" THEN context.unit ELSE get_default_unit(t)

\* _calculate_extraction_confidence started from 0.0 instead of 0.5
calculate_extraction_confidence_no_base(value, context, t, p) ==
    LET c1 == IF PatternHasFasting(t, p) THEN PatternBoost ELSE 0
        c2 == IF PatternHasTestName(t, p) THEN c1 + PatternBoost ELSE c1
        c3 == IF context.unit # "" THEN c2 + ContextBoost ELSE c2
        c4 == IF context.range_word THEN c3 + ContextBoost ELSE c3
        c5 == IF value < reference_ranges(t).min \div 10
                 \/ value > reference_ranges(t).max * 10
              THEN c4 - ImplausiblePenalty ELSE c4
    IN  Max(MinTextConfidence, Min(MaxConfidence, c5))

\* _calculate_extraction_confidence
calculate_extraction_confidence(value, context, t, p) ==
    LET c0 == BaseConfidence
        c1 == IF PatternHasFasting(t, p) THEN c0 + PatternBoost ELSE c0
        c2 == IF PatternHasTestName(t, p) THEN c1 + PatternBoost ELSE c1
        c3 == IF context.unit # "" THEN c2 + ContextBoost ELSE c2
        c4 == IF context.range_word THEN c3 + ContextBoost ELSE c3
        min_val == reference_ranges(t).min
        max_val == reference_ranges(t).max
        \* value < min_val * 0.1 or value > max_val * 10 (every min of the
        \* catalog is a whole number of hundredths)
        c5 == IF value < min_val \div 10 \/ value > max_val * 10
              THEN c4 - ImplausiblePenalty ELSE c4
    IN  Max(MinTextConfidence, Min(MaxConfidence, c5))

\* _deduplicate_values, one step of the loop: unique_values is kept as the
\* list of the dict's values in insertion order
DedupStepKeepAll(unique_values, value) == Append(unique_values, value)

DedupStep(unique_values, value) ==
    IF \E i \in 1..Len(unique_values) : unique_values[i].test_name = value.test_name
    THEN LET i == CHOOSE j \in 1..Len(unique_values) :
                      unique_values[j].test_name = value.test_name
         IN  IF value.confidence > unique_values[i].confidence
             THEN [unique_values EXCEPT ![i] = value]
             ELSE unique_values
    ELSE Append(unique_values, value)

RECURSIVE DedupFrom(_, _)
DedupFrom(unique_values, values) ==
    IF values = <<>> THEN unique_values
    ELSE DedupFrom(DedupStep(unique_values, values[1]), Tail(values))

\* _deduplicate_values
deduplicate_values(values) == DedupFrom(<<>>, values)

\* the lab_value dict extract_from_tables builds for a row
TableLabValue(row) ==
    LET t == row.test_name
        r == Reading("tables", t)
    IN  [test_name |-> t, value |-> r.value, unit |-> r.unit,
         reference_range |-> get_reference_range(t),
         confidence |-> Min(TableCap, row.accuracy),
         is_abnormal |-> is_value_abnormal(t, r.value, r.unit),
         stage |-> "tables", converted |-> "absent"]

\* extract_from_tables over the recognised rows of the tables
extract_from_tables(rows) ==
    deduplicate_values([i \in 1..Len(rows) |-> TableLabValue(rows[i])])

\* the lab_value dict extract_from_text builds for a match
TextLabValue(m, confidence_modifier, stage) ==
    LET t == m.test_name
        detected_unit == detect_unit(m.context, t)
    IN  [test_name |-> t, value |-> m.value, unit |-> detected_unit,
         reference_range |-> get_reference_range(t),
         confidence |-> (calculate_extraction_confidence(m.value, m.context, t, m.pattern)
                            * confidence_modifier) \div 1000,
         is_abnormal |-> is_value_abnormal(t, m.value, detected_unit),
         stage |-> stage, converted |-> "absent"]

\* extract_from_text over the matches found in the text
extract_from_text(matches, confidence_modifier, stage) ==
    deduplicate_values(
        [i \in 1..Len(matches) |-> TextLabValue(matches[i], confidence_modifier, stage)])

\* The match lists re.finditer can yield: extract_from_text walks the tests in
\* catalog order and each test's patterns in list order.
TextMatchLists(stage) ==
    {s \in SeqsUpTo(TextMatches(stage), MaxRaw) :
        \A i \in 1..Len(s) - 1 :
            \/ TestIndex(s[i].test_name) < TestIndex(s[i + 1].test_name)
            \/ /\ s[i].test_name = s[i + 1].test_name
               /\ s[i].pattern <= s[i + 1].pattern}

TableRowLists == SeqsUpTo(TableRows, MaxRaw)

(***************************************************************************)
(* ExtractionService (extraction_service.py): pure parts.                  *)
(***************************************************************************)
\* if not results["lab_values"] or results["confidence"] < 0.5
OcrThreshold == 500
\* extraction_results["confidence"] < 0.7
ReviewThreshold == 700
\* if len(lab_values) >= 3
BoostCount == 3

\* merge_step that replaces an entry also on equal confidence
merge_step_replace_on_tie(merged_values, new_value) ==
    IF \E i \in 1..Len(merged_values) :
            merged_values[i].test_name = new_value.test_name
    THEN LET i == CHOOSE j \in 1..Len(merged_values) :
                      merged_values[j].test_name = new_value.test_name
         IN  IF new_value.confidence >= merged_values[i].confidence
             THEN [merged_values EXCEPT ![i] = new_value]
             ELSE merged_values
    ELSE merged_values \o <<new_value>>

\* merge_step that never adds a test it does not hold yet
merge_step_no_append(merged_values, new_value) ==
    IF \E i \in 1..Len(merged_values) :
            merged_values[i].test_name = new_value.test_name
    THEN LET i == CHOOSE j \in 1..Len(merged_values) :
                      merged_values[j].test_name = new_value.test_name
         IN  IF new_value.confidence > merged_values[i].confidence
             THEN [merged_values EXCEPT ![i] = new_value]
             ELSE merged_values
    ELSE merged_values

\* merge_step that never replaces an entry it already holds
merge_step_keep_existing(merged_values, new_value) ==
    IF \E i \in 1..Len(merged_values) :
            merged_values[i].test_name = new_value.test_name
    THEN merged_values
    ELSE Append(merged_values, new_value)

\* merge_step without the search for an existing entry
merge_step_always_append(merged_values, new_value) == Append(merged_values, new_value)

\* _merge_lab_values, one step of the loop over new_values.  Test names are
\* catalog keys, all lower case, so .lower() changes none of them.
merge_step(merged_values, new_value) ==
    IF \E i \in 1..Len(merged_values) :
            merged_values[i].test_name = new_value.test_name
    THEN LET existing_index ==
                 CHOOSE i \in 1..Len(merged_values) :
                     /\ merged_values[i].test_name = new_value.test_name
                     /\ \A j \in 1..(i - 1) :
                            merged_values[j].test_name # new_value.test_name
         IN  IF new_value.confidence > merged_values[existing_index].confidence
             THEN [merged_values EXCEPT ![existing_index] = new_value]
             ELSE merged_values
    ELSE Append(merged_values, new_value)

RECURSIVE MergeFrom(_, _)
MergeFrom(merged_values, new_values) ==
    IF new_values = <<>> THEN merged_values
    ELSE MergeFrom(merge_step(merged_values, new_values[1]), Tail(new_values))

\* _merge_lab_values
merge_lab_values(existing_values, new_values) == MergeFrom(existing_values, new_values)

\* calculate_overall_confidence without the boost for three or more values
calculate_overall_confidence_no_boost(lab_values) ==
    IF Len(lab_values) = 0 THEN 0
    ELSE RoundHalfEven(SumConfidence(lab_values), Len(lab_values))

\* _calculate_overall_confidence: round(average, 3), in thousandths.
\* average * 1.1 is total * 11 / (n * 10).
calculate_overall_confidence(lab_values) ==
    LET n == Len(lab_values)
        total_confidence == SumConfidence(lab_values)
    IN  IF n = 0 THEN 0
        ELSE IF n >= BoostCount
             THEN IF 11 * total_confidence >= MaxConfidence * 10 * n
                  THEN MaxConfidence
                  ELSE RoundHalfEven(11 * total_confidence, 10 * n)
        ELSE RoundHalfEven(total_confidence, n)

\* _process_lab_values for one lab value.  Neither callee raises
\* (convert_to_standard_unit catches everything and returns None,
\* is_value_abnormal compares numbers), so the except branch is not taken.
process_lab_value(lab_value) ==
    LET normalized_value == convert_to_standard_unit(
            lab_value.test_name, lab_value.value, lab_value.unit)
        updated == IF normalized_value.ok
                   THEN [lab_value EXCEPT !.value = normalized_value.value,
                                          !.unit = normalized_value.unit,
                                          !.converted = normalized_value.converted]
                   ELSE lab_value
    IN  [updated EXCEPT
            !.is_abnormal = is_value_abnormal(updated.test_name, updated.value, updated.unit),
            !.reference_range = IF updated.reference_range = ""
                                THEN get_reference_range(updated.test_name)
                                ELSE updated.reference_range]

\* _process_lab_values
process_lab_values(lab_values) ==
    [i \in 1..Len(lab_values) |-> process_lab_value(lab_values[i])]

\* an entry of the errors list: the fixed text and the str(e) put into it
Error(kind, cause) == [kind |-> kind, cause |-> cause]

\* an extraction_results dict kept on the service and reused by the next
\* call: it still holds the lab values of a call that has returned
InitialResultsLeftOver ==
    LET returned == {k \in 1..Len(tasks) : tasks[k].pc = "done"}
        fresh == [extraction_stages |-> <<>>, lab_values |-> <<>>, confidence |-> 0,
                  method |-> "unknown", requires_manual_review |-> FALSE,
                  errors |-> <<>>]
    IN  IF returned = {} THEN fresh
        ELSE [fresh EXCEPT !.lab_values =
                  tasks[CHOOSE k \in returned : TRUE].results.lab_values]

\* the extraction_results dict extract_document starts from (lines 52-62)
InitialResults ==
    [extraction_stages |-> <<>>, lab_values |-> <<>>, confidence |-> 0,
     method |-> "unknown", requires_manual_review |-> FALSE, errors |-> <<>>]

\* the dict the except clause of extract_document returns (lines 98-106);
\* it has no extraction_stages key, shown here as the empty list
FailedResult(e) ==
    [extraction_stages |-> <<>>, lab_values |-> <<>>, confidence |-> 0,
     method |-> "failed", requires_manual_review |-> TRUE, errors |-> <<e>>]

\* requires_manual_review that looks at the confidence alone
requires_manual_review_confidence_only(confidence, errors) ==
    confidence < ReviewThreshold

\* requires_manual_review of extract_document (lines 84-87)
requires_manual_review(confidence, errors) ==
    confidence < ReviewThreshold \/ Len(errors) > 0

\* extract_document after the strategy returned (lines 74-94)
Finalize(r) ==
    LET processed == IF r.lab_values # <<>>
                     THEN process_lab_values(r.lab_values) ELSE r.lab_values
        confidence == calculate_overall_confidence(processed)
    IN  [r EXCEPT !.lab_values = processed,
                  !.confidence = confidence,
                  !.requires_manual_review = requires_manual_review(confidence, r.errors)]

\* What a coroutine hands back: a value, or an exception leaving it.
Returned(r) == [raised |-> FALSE, exc |-> Error("", ""), results |-> r]
Raised(e, r) == [raised |-> TRUE, exc |-> e, results |-> r]

\* extract_document without its except clause: the exception leaves it
extract_document_except_missing(e) == Raised(e, FailedResult(e))

\* except Exception as e of extract_document (lines 96-106)
extract_document_except(e) == Returned(FailedResult(e))

\* except Exception as e of _extract_pdf (lines 152-155)
extract_pdf_except(r, e) ==
    Returned([r EXCEPT !.errors = Append(@, Error("PDF extraction error", e.cause))])

\* extract_document from the return of the strategy on: the try body runs
\* Finalize, an exception leaving the strategy reaches the except clause
extract_document_tail(sub) ==
    IF sub.raised THEN extract_document_except(sub.exc)
    ELSE Returned(Finalize(sub.results))

(***************************************************************************)
(* The collaborators as the service sees them.                             *)
(***************************************************************************)
\* the declared media types of the model
FileTypes == {"application/pdf", "image/PNG", "text/plain"}

\* file_metadata.get("file_type", "").lower()
Lower(ft) == IF ft = "image/PNG" THEN "image/png" ELSE ft

\* "pdf" in file_type
IsPdf(ft) == ft = "application/pdf"

\* any(img_type in file_type for img_type in ["jpeg", "jpg", "png"])
IsImage(ft) == ft = "image/png"

\* PDFParser.extract_tables (pdf_parser.py 43-128): the dict it returns.
\*   unavailable: CAMELOT_AVAILABLE is false, tables = [] and no error key;
\*   error: the body raised (missing file, camelot failure), caught at 120:
\*          tables = [] and "error": str(e);
\*   ok: has_tables tells whether camelot found a table, rows are the rows of
\*       the tables that LabMapper recognises as lab values;
\*   raises: an exception leaves the call.
TableOutcomes(exists) ==
    {[kind |-> "unavailable", has_tables |-> FALSE, rows |-> <<>>, error |-> ""]}
    \cup {[kind |-> "error", has_tables |-> FALSE, rows |-> <<>>,
           error |-> IF exists THEN "camelot failure" ELSE "FileNotFoundError"]}
    \cup (IF exists
          THEN {[kind |-> "ok", has_tables |-> TRUE, rows |-> r, error |-> ""] :
                    r \in TableRowLists}
               \cup {[kind |-> "ok", has_tables |-> FALSE, rows |-> <<>>, error |-> ""]}
               \cup {[kind |-> "raises", has_tables |-> FALSE, rows |-> <<>>,
                      error |-> "table stage exception"]}
          ELSE {})

\* PDFParser.extract_text (pdf_parser.py 130-193) and OCREngine.extract_text
\* (ocr_engine.py 57-138): text = "" when has_text is false.
\*   error: the body raised (missing file, library unavailable or failing),
\*          caught: text = "" and "error": str(e);
\*   ok: the text and the regex matches LabMapper finds in it;
\*   raises: an exception leaves the call.
TextOutcomes(stage, exists) ==
    {[kind |-> "error", has_text |-> FALSE, matches |-> <<>>,
      error |-> IF exists THEN "library failure" ELSE "FileNotFoundError"]}
    \cup (IF exists
          THEN {[kind |-> "ok", has_text |-> TRUE, matches |-> m, error |-> ""] :
                    m \in TextMatchLists(stage)}
               \cup {[kind |-> "ok", has_text |-> FALSE, matches |-> <<>>, error |-> ""]}
               \cup {[kind |-> "raises", has_text |-> FALSE, matches |-> <<>>,
                      error |-> IF stage = "ocr" THEN "ocr stage exception"
                                ELSE "text stage exception"]}
          ELSE {})

\* the outcome sets, computed once
TableOutcomeSets == (FALSE :> TableOutcomes(FALSE)) @@ (TRUE :> TableOutcomes(TRUE))
TextOutcomeSets ==
    (<<"text", FALSE>> :> TextOutcomes("text", FALSE))
        @@ (<<"text", TRUE>> :> TextOutcomes("text", TRUE))
        @@ (<<"ocr", FALSE>> :> TextOutcomes("ocr", FALSE))
        @@ (<<"ocr", TRUE>> :> TextOutcomes("ocr", TRUE))

\* _extract_with_ocr (lines 175-199): the lab values it returns and the
\* results dict with the error it appended
extract_with_ocr(o, r) ==
    IF o.kind = "raises"
    THEN [lab_values |-> <<>>,
          results |-> [r EXCEPT !.errors = Append(@, Error("OCR error", o.error))]]
    ELSE IF o.has_text
    THEN [lab_values |-> extract_from_text(o.matches, OcrModifier, "ocr"),
          results |-> r]
    ELSE [lab_values |-> <<>>,
          results |-> [r EXCEPT !.errors =
                          Append(@, Error("OCR failed to extract readable text", ""))]]

\* _extract_pdf, stage 1 (lines 111-120), after extract_tables returned
extract_pdf_stage1(o, r) ==
    IF o.has_tables
    THEN [r EXCEPT !.extraction_stages = Append(@, "camelot_tables"),
                   !.method = "camelot",
                   !.lab_values = @ \o extract_from_tables(o.rows)]
    ELSE r

\* stage 2 that normalizes the merged values at once
extract_pdf_stage2_normalizing(o, r) ==
    IF o.has_text
    THEN [r EXCEPT !.extraction_stages = Append(@, "pdfplumber_text"),
                   !.method = IF r.lab_values = <<>> THEN "pdfplumber" ELSE @,
                   !.lab_values = process_lab_values(merge_lab_values(
                        @, extract_from_text(o.matches, TextModifier, "text")))]
    ELSE r

\* _extract_pdf, stage 2 (lines 122-136), after extract_text returned
extract_pdf_stage2(o, r) ==
    IF o.has_text
    THEN [r EXCEPT !.extraction_stages = Append(@, "pdfplumber_text"),
                   !.method = IF r.lab_values = <<>> THEN "pdfplumber" ELSE @,
                   !.lab_values = merge_lab_values(
                        @, extract_from_text(o.matches, TextModifier, "text"))]
    ELSE r

\* the condition of stage 3 (line 139)
ocr_needed(r) == r.lab_values = <<>> \/ r.confidence < OcrThreshold

\* _extract_pdf, stage 3 (lines 141-150), after _extract_with_ocr returned
extract_pdf_stage3(o, r) ==
    LET ocr_results == extract_with_ocr(o, r)
        r1 == ocr_results.results
    IN  IF ocr_results.lab_values # <<>>
        THEN [r1 EXCEPT !.extraction_stages = Append(@, "ocr_fallback"),
                        !.method = IF r1.lab_values = <<>> THEN "ocr" ELSE @,
                        !.lab_values = merge_lab_values(@, ocr_results.lab_values)]
        ELSE r1

\* _extract_image after _extract_with_ocr returned (lines 165-168)
extract_image_tail(o, r) ==
    LET ocr_results == extract_with_ocr(o, r)
    IN  [ocr_results.results EXCEPT !.lab_values = ocr_results.lab_values]

(***************************************************************************)
(* The pipeline of one document: extract_document, one action per stretch  *)
(* of code between two awaits on a collaborator.                           *)
(***************************************************************************)
\* extract_batch not called
NoBatch == [pc |-> "idle", files |-> <<>>, i |-> 0, finished |-> <<>>,
            results |-> <<>>, processed_results |-> <<>>]

NoYield == [tables |-> FALSE, text |-> FALSE, ocr |-> FALSE]
NoOutcomes == [tables |-> "none", text |-> "none", ocr |-> "none"]

Init ==
    /\ pc = "start"
    /\ file_type \in FileTypes
    /\ fileExists \in BOOLEAN
    /\ results = InitialResults
    /\ stageOutcome = NoOutcomes
    /\ yielded = NoYield
    /\ hPc = "idle"
    /\ hIn = <<>>
    /\ hOut = <<>>
    /\ tasks = <<>>
    /\ batch = NoBatch

\* where the coroutine is after `ret` came back from extract_document's body
Finish(ret) ==
    /\ pc' = IF ret.raised THEN "raised" ELSE "done"
    /\ results' = ret.results

\* extract_document up to the first await (lines 49-72, 108-113, 157-165)
Start ==
    /\ pc = "start"
    /\ LET ft == Lower(file_type)
       IN  IF IsPdf(ft)
           THEN /\ pc' = "await_tables"
                /\ results' = results
           ELSE IF IsImage(ft)
           THEN /\ pc' = "await_image_ocr"
                /\ results' = [results EXCEPT
                                  !.extraction_stages = Append(@, "image_ocr"),
                                  !.method = "ocr"]
           ELSE Finish(extract_document_except(Error("Unsupported file type", ft)))
    /\ UNCHANGED <<file_type, fileExists, stageOutcome, yielded, harnessVars, batchVars>>

\* extract_tables returns: stage 1, then the call of extract_text
TablesReturn ==
    /\ pc = "await_tables"
    /\ \E o \in TableOutcomeSets[fileExists] :
         /\ stageOutcome' = [stageOutcome EXCEPT !.tables = o.kind]
         /\ yielded' = [yielded EXCEPT
                           !.tables = o.has_tables /\ extract_from_tables(o.rows) # <<>>]
         /\ IF o.kind = "raises"
            THEN Finish(extract_document_tail(
                     extract_pdf_except(results, Error("", o.error))))
            ELSE /\ pc' = "await_text"
                 /\ results' = extract_pdf_stage1(o, results)
    /\ UNCHANGED <<file_type, fileExists, harnessVars, batchVars>>

\* extract_text returns: stage 2, then the decision on stage 3
TextReturn ==
    /\ pc = "await_text"
    /\ \E o \in TextOutcomeSets["text", fileExists] :
         /\ stageOutcome' = [stageOutcome EXCEPT !.text = o.kind]
         /\ yielded' = [yielded EXCEPT
                           !.text = /\ o.has_text
                                    /\ extract_from_text(o.matches, TextModifier, "text") # <<>>]
         /\ IF o.kind = "raises"
            THEN Finish(extract_document_tail(
                     extract_pdf_except(results, Error("", o.error))))
            ELSE LET r == extract_pdf_stage2(o, results)
                 IN  IF ocr_needed(r)
                     THEN /\ pc' = "await_ocr"
                          /\ results' = r
                     ELSE Finish(extract_document_tail(Returned(r)))
    /\ UNCHANGED <<file_type, fileExists, harnessVars, batchVars>>

\* OCREngine.extract_text returns inside _extract_with_ocr, PDF pipeline
OcrReturn ==
    /\ pc = "await_ocr"
    /\ \E o \in TextOutcomeSets["ocr", fileExists] :
         /\ stageOutcome' = [stageOutcome EXCEPT !.ocr = o.kind]
         /\ yielded' = [yielded EXCEPT
                           !.ocr = extract_with_ocr(o, results).lab_values # <<>>]
         /\ Finish(extract_document_tail(Returned(extract_pdf_stage3(o, results))))
    /\ UNCHANGED <<file_type, fileExists, harnessVars, batchVars>>

\* OCREngine.extract_text returns inside _extract_with_ocr, image pipeline
ImageOcrReturn ==
    /\ pc = "await_image_ocr"
    /\ \E o \in TextOutcomeSets["ocr", fileExists] :
         /\ stageOutcome' = [stageOutcome EXCEPT !.ocr = o.kind]
         /\ yielded' = [yielded EXCEPT
                           !.ocr = extract_with_ocr(o, results).lab_values # <<>>]
         /\ Finish(extract_document_tail(Returned(extract_image_tail(o, results))))
    /\ UNCHANGED <<file_type, fileExists, harnessVars, batchVars>>

Next ==
    \/ Start
    \/ TablesReturn
    \/ TextReturn
    \/ OcrReturn
    \/ ImageOcrReturn

Spec == Init /\ [][Next]_vars


(***************************************************************************)
(* A second specification for the two merging functions on their own: a    *)
(* pair of candidates is drawn, then merged and de-duplicated in both      *)
(* orders of arrival.                                                      *)
(***************************************************************************)
\* every lab value a stage of the model can produce
Candidates ==
    {TableLabValue(row) : row \in TableRows}
    \cup {TextLabValue(m, TextModifier, "text") : m \in TextMatches("text")}
    \cup {TextLabValue(m, OcrModifier, "ocr") : m \in TextMatches("ocr")}

InitMerge ==
    /\ pc = "idle"
    /\ file_type = "application/pdf"
    /\ fileExists = TRUE
    /\ results = InitialResults
    /\ stageOutcome = NoOutcomes
    /\ yielded = NoYield
    /\ hPc = "drawn"
    /\ hIn \in [a : Candidates, b : Candidates]
    /\ hOut = <<>>
    /\ tasks = <<>>
    /\ batch = NoBatch

ApplyMerge ==
    /\ hPc = "drawn"
    /\ hPc' = "applied"
    /\ hOut' = [ab  |-> merge_lab_values(<<hIn.a>>, <<hIn.b>>),
                ba  |-> merge_lab_values(<<hIn.b>>, <<hIn.a>>),
                dab |-> deduplicate_values(<<hIn.a, hIn.b>>),
                dba |-> deduplicate_values(<<hIn.b, hIn.a>>)]
    /\ UNCHANGED <<hIn, pipelineVars, batchVars>>

NextMerge == ApplyMerge

SpecMerge == InitMerge /\ [][NextMerge]_vars

(***************************************************************************)
(* A third specification for the unit converter on its own: a value in a   *)
(* unit of its test's family is converted to the test's standard unit and  *)
(* back again.                                                             *)
(***************************************************************************)
\* the largest whole number of units drawn as a value
MaxRoundTrip == 100

\* the tests of the model that have a conversion family
ConvertibleTests == {t \in Tests : get_conversion_category(t) # ""}

\* the unit spellings that are keys of a family's matrix
FamilyUnits(category) ==
    CASE category = "glucose"    -> {"mg/dL", "mmol/L"}
      [] category = "creatinine" -> {"mg/dL", "μmol/L", "umol/L"}
      [] category = "thyroid"    ->
             {"ng/dL", "nmol/L", "ng/ml", "μg/dL", "ug/dL", "pmol/L"}
      [] OTHER                   -> {}

\* the values drawn in a unit, k steps of a size that suits the unit's scale
\* (thousandths of the unit): 0.1 mmol/L, 1 umol/L, 1 mg/dL of glucose,
\* 0.02 mg/dL of creatinine
ValueStep(t, unit) ==
    CASE unit = "mmol/L" -> 100
      [] unit = "mg/dL" /\ t = "creatinine" -> 20
      [] OTHER -> 1000

RoundTripInputs ==
    UNION {{[test_name |-> t, unit |-> u, value |-> k * ValueStep(t, u)] :
                u \in FamilyUnits(get_conversion_category(t)),
                k \in 1..MaxRoundTrip} : t \in ConvertibleTests}

InitRoundTrip ==
    /\ pc = "idle"
    /\ file_type = "application/pdf"
    /\ fileExists = TRUE
    /\ results = InitialResults
    /\ stageOutcome = NoOutcomes
    /\ yielded = NoYield
    /\ hPc = "drawn"
    /\ hIn \in RoundTripInputs
    /\ hOut = <<>>
    /\ tasks = <<>>
    /\ batch = NoBatch

ApplyRoundTrip ==
    /\ hPc = "drawn"
    /\ hPc' = "applied"
    /\ LET there == convert_to_standard_unit(hIn.test_name, hIn.value, hIn.unit)
           back  == convert_between_units(there.value, there.unit, hIn.unit,
                                          get_conversion_category(hIn.test_name))
       IN  hOut' = [there |-> there, back |-> back]
    /\ UNCHANGED <<hIn, pipelineVars, batchVars>>

NextRoundTrip == ApplyRoundTrip

SpecRoundTrip == InitRoundTrip /\ [][NextRoundTrip]_vars

(***************************************************************************)
(* extract_batch (extraction_service.py 282-324): the coroutines it creates *)
(* and gathers chunk by chunk.  Each coroutine is an extract_document call *)
(* of its own, stepped as in the single-document pipeline above.           *)
(***************************************************************************)
\* the largest number of documents handed to extract_batch
MaxDocs == 4

\* batch_size = 3  # Limit concurrent extractions
batch_size == 3

\* the documents a batch is made of
BatchDocs ==
    {[file_type |-> "application/pdf", exists |-> TRUE],
     [file_type |-> "image/PNG", exists |-> FALSE],
     [file_type |-> "text/plain", exists |-> TRUE]}

\* what the stages answer for the documents of a batch: a table with one
\* glucose row or a failing table stage; a text layer that is empty or a text stage that throws; an
\* OCR transcript with one hba1c match, or none for the unreadable image
BatchTableOutcomes ==
    {o \in TableOutcomeSets[TRUE] :
        \/ o.kind = "error"
        \/ /\ o.kind = "ok"
           /\ o.rows = <<[test_name |-> "glucose_fasting", accuracy |-> 99020]>>}
BatchTextOutcomes ==
    {o \in TextOutcomeSets["text", TRUE] :
        o.kind = "raises" \/ (o.kind = "ok" /\ ~o.has_text)}
BatchOcrOutcomes(exists) ==
    {o \in TextOutcomeSets["ocr", exists] :
        \/ o.kind = "error" /\ ~exists
        \/ /\ o.kind = "ok"
           /\ Len(o.matches) = 1
           /\ o.matches[1].test_name = "hba1c"
           /\ o.matches[1].pattern = 1
           /\ o.matches[1].context = BareContext}

\* the OCR answers, computed once
BatchOcrOutcomeSets ==
    (FALSE :> BatchOcrOutcomes(FALSE)) @@ (TRUE :> BatchOcrOutcomes(TRUE))

\* no answer yet from a stage
NoTableOutcome == [kind |-> "none", has_tables |-> FALSE, rows |-> <<>>, error |-> ""]
NoTextOutcome == [kind |-> "none", has_text |-> FALSE, matches |-> <<>>, error |-> ""]

\* task = self.extract_document(file_path, metadata): a coroutine object
\* whose body has not started; outcomes is the history of what the stages
\* answered to it
NewTask(doc) ==
    [doc |-> doc, pc |-> "created", results |-> InitialResults,
     exc |-> Error("", ""),
     outcomes |-> [tables |-> NoTableOutcome, text |-> NoTextOutcome,
                   ocr |-> NoTextOutcome]]

\* a coroutine after `ret` came back from the body of extract_document
Landed(t, ret) ==
    [t EXCEPT !.pc = IF ret.raised THEN "raised" ELSE "done",
              !.results = ret.results,
              !.exc = ret.exc]

\* extract_document up to its first await (lines 49-72, 108-113, 157-165)
start_task(t) ==
    LET ft == Lower(t.doc.file_type)
    IN  IF IsPdf(ft)
        THEN [t EXCEPT !.pc = "await_tables", !.results = InitialResults]
        ELSE IF IsImage(ft)
        THEN [t EXCEPT !.pc = "await_image_ocr",
                       !.results = [InitialResults EXCEPT
                                       !.extraction_stages = Append(@, "image_ocr"),
                                       !.method = "ocr"]]
        ELSE Landed(t, extract_document_except(Error("Unsupported file type", ft)))

\* extract_tables returned o to the coroutine
tables_return_task(t, o) ==
    LET t1 == [t EXCEPT !.outcomes.tables = o]
    IN  IF o.kind = "raises"
        THEN Landed(t1, extract_document_tail(
                            extract_pdf_except(t.results, Error("", o.error))))
        ELSE [t1 EXCEPT !.pc = "await_text",
                        !.results = extract_pdf_stage1(o, t.results)]

\* extract_text returned o to the coroutine
text_return_task(t, o) ==
    LET t1 == [t EXCEPT !.outcomes.text = o]
        r == extract_pdf_stage2(o, t.results)
    IN  IF o.kind = "raises"
        THEN Landed(t1, extract_document_tail(
                            extract_pdf_except(t.results, Error("", o.error))))
        ELSE IF ocr_needed(r)
        THEN [t1 EXCEPT !.pc = "await_ocr", !.results = r]
        ELSE Landed(t1, extract_document_tail(Returned(r)))

\* OCREngine.extract_text returned o to the coroutine
ocr_return_task(t, o) ==
    LET t1 == [t EXCEPT !.outcomes.ocr = o]
    IN  IF t.pc = "await_ocr"
        THEN Landed(t1, extract_document_tail(
                            Returned(extract_pdf_stage3(o, t.results))))
        ELSE Landed(t1, extract_document_tail(
                            Returned(extract_image_tail(o, t.results))))

\* a coroutine that has ended, by a return or by an exception
Ended(t) == t.pc \in {"done", "raised"}

\* tasks[i:i + batch_size] as the index of its last element
ChunkEndUnlimited(i, n) == n

ChunkEnd(i, n) == Min(i + batch_size - 1, n)

\* a gather that wraps every coroutine from the chunk's first one on
schedule_all(ts, i, e) ==
    [k \in 1..Len(ts) |-> IF i <= k THEN [ts[k] EXCEPT !.pc = "scheduled"] ELSE ts[k]]

\* a gather that wraps no coroutine
schedule_none(ts, i, e) == ts

\* asyncio.gather wraps the coroutines of the chunk in tasks: they are
\* scheduled, their bodies start when the event loop runs them
schedule(ts, i, e) ==
    [k \in 1..Len(ts) |-> IF i <= k /\ k <= e
                          THEN [ts[k] EXCEPT !.pc = "scheduled"] ELSE ts[k]]

\* what a coroutine handed to gather: with return_exceptions=True the
\* exception object stands in for the result
task_result(t) == [raised |-> t.pc = "raised", exc |-> t.exc, results |-> t.results]

\* gather that hands the results back in the order of completion
gather_as_completed(ts, finished, i, e) ==
    [j \in 1..Len(finished) |-> task_result(ts[finished[j]])]

\* batch_results of await asyncio.gather(*batch_tasks, return_exceptions=True):
\* in the order of the arguments
gather(ts, finished, i, e) ==
    [j \in 1..(e - i + 1) |-> task_result(ts[i + j - 1])]

\* the loop over results that turns exceptions into failed entries (303-316)
process_results(rs) ==
    [k \in 1..Len(rs) |-> IF rs[k].raised THEN FailedResult(rs[k].exc)
                          ELSE rs[k].results]

InitBatch ==
    /\ tasks = <<>>
    /\ pc = "idle"
    /\ file_type = "application/pdf"
    /\ fileExists = TRUE
    /\ results = InitialResults
    /\ stageOutcome = NoOutcomes
    /\ yielded = NoYield
    /\ hPc = "idle"
    /\ hIn = <<>>
    /\ hOut = <<>>
    /\ batch \in {[NoBatch EXCEPT !.pc = "called", !.files = f] :
                      f \in SeqsUpTo(BatchDocs, MaxDocs)}

\* extract_batch up to its first await: the coroutines are created, the
\* first chunk is handed to gather (lines 285-300); no document, no await
BatchStart ==
    /\ batch.pc = "called"
    /\ LET n == Len(batch.files)
           created == [k \in 1..n |-> NewTask(batch.files[k])]
       IN  IF n = 0
           THEN /\ tasks' = created
                /\ batch' = [batch EXCEPT !.pc = "returned"]
           ELSE /\ tasks' = schedule(created, 1, ChunkEnd(1, n))
                /\ batch' = [batch EXCEPT !.pc = "gathering", !.i = 1]
    /\ UNCHANGED <<pipelineVars, harnessVars>>

\* the event loop runs one coroutine from its current await to the next
SetTask(k, t) ==
    /\ tasks' = [tasks EXCEPT ![k] = t]
    /\ batch' = IF Ended(t) THEN [batch EXCEPT !.finished = Append(@, k)] ELSE batch
    /\ UNCHANGED <<pipelineVars, harnessVars>>

TaskStart ==
    \E k \in 1..Len(tasks) :
        /\ tasks[k].pc = "scheduled"
        /\ SetTask(k, start_task(tasks[k]))

TaskTablesReturn ==
    \E k \in 1..Len(tasks) :
        /\ tasks[k].pc = "await_tables"
        /\ \E o \in BatchTableOutcomes : SetTask(k, tables_return_task(tasks[k], o))

TaskTextReturn ==
    \E k \in 1..Len(tasks) :
        /\ tasks[k].pc = "await_text"
        /\ \E o \in BatchTextOutcomes : SetTask(k, text_return_task(tasks[k], o))

TaskOcrReturn ==
    \E k \in 1..Len(tasks) :
        /\ tasks[k].pc \in {"await_ocr", "await_image_ocr"}
        /\ \E o \in BatchOcrOutcomeSets[tasks[k].doc.exists] :
              SetTask(k, ocr_return_task(tasks[k], o))

\* gather returns when every coroutine of the chunk has ended; the loop goes
\* on to the next chunk, or to the post-processing and the return (301-319)
GatherReturn ==
    /\ batch.pc = "gathering"
    /\ LET n == Len(tasks)
           e == ChunkEnd(batch.i, n)
           collected == batch.results \o gather(tasks, batch.finished, batch.i, e)
           next_i == batch.i + batch_size
       IN  /\ \A k \in batch.i..e : Ended(tasks[k])
           /\ IF next_i <= n
              THEN /\ tasks' = schedule(tasks, next_i, ChunkEnd(next_i, n))
                   /\ batch' = [batch EXCEPT !.i = next_i, !.finished = <<>>,
                                             !.results = collected]
              ELSE /\ tasks' = tasks
                   /\ batch' = [batch EXCEPT !.pc = "returned",
                                             !.results = collected,
                                             !.processed_results =
                                                 process_results(collected)]
    /\ UNCHANGED <<pipelineVars, harnessVars>>

NextBatch ==
    \/ BatchStart
    \/ TaskStart
    \/ TaskTablesReturn
    \/ TaskTextReturn
    \/ TaskOcrReturn
    \/ GatherReturn

SpecBatch == InitBatch /\ [][NextBatch]_vars

(***************************************************************************)
(* extract_batch under fair scheduling.  Its coroutines are the            *)
(* extract_document calls, one per document.  Every external stage call    *)
(* that is awaited comes back (by a return or an exception), the event     *)
(* loop runs every coroutine that is ready, and gather hands back once its *)
(* coroutines have ended.                                                  *)
(*                                                                         *)
(* That the awaited OCR call comes back is a condition on the caller's     *)
(* position alone, not on what the call answers.  It is stated on the      *)
(* projection of TaskOcrReturn on the completion list of the gather, which *)
(* every return from the OCR stage extends because that return is the      *)
(* last step of the coroutine.                                             *)
(***************************************************************************)
\* TaskOcrReturn seen on batch: coroutine k ends
TaskOcrComesBack ==
    \E k \in 1..Len(tasks) :
        /\ tasks[k].pc \in {"await_ocr", "await_image_ocr"}
        /\ batch' = [batch EXCEPT !.finished = Append(@, k)]

Fairness ==
    /\ WF_vars(BatchStart)
    /\ WF_vars(TaskStart)
    /\ WF_vars(TaskTablesReturn)
    /\ WF_vars(TaskTextReturn)
    /\ WF_batch(TaskOcrComesBack)
    /\ WF_vars(GatherReturn)

SpecLive == InitBatch /\ [][NextBatch]_vars /\ Fairness

(***************************************************************************)
(* A specification for the progressive merging of _extract_pdf on its own: *)
(* what the three stages find is drawn, then stage 1, 2 and 3 and the      *)
(* normalization are applied to it.                                        *)
(***************************************************************************)
\* raw rows / regex matches drawn per stage
MaxStageRaw == 1

\* the tests the drawn rows and matches are about
ProgressiveTests == {"glucose_fasting", "hba1c"}

ProgressiveRows ==
    SeqsUpTo({row \in TableRows : row.test_name \in ProgressiveTests}, MaxStageRaw)

ProgressiveMatches(stage) ==
    {m \in TextMatchLists(stage) :
        /\ Len(m) <= MaxStageRaw
        /\ \A i \in 1..Len(m) : m[i].test_name \in ProgressiveTests}

\* the lists after a call of _merge_lab_values: merged_values is a copy of
\* existing_values (line 245), item assignment and append change the copy
\* only, and new_values is only read
merge_call(existing_values, new_values) ==
    [returned |-> merge_lab_values(existing_values, new_values),
     existing_values |-> existing_values,
     new_values |-> new_values]

InitProgressive ==
    /\ pc = "idle"
    /\ file_type = "application/pdf"
    /\ fileExists = TRUE
    /\ results = InitialResults
    /\ stageOutcome = NoOutcomes
    /\ yielded = NoYield
    /\ hPc = "drawn"
    /\ hIn \in [rows : ProgressiveRows,
                text : ProgressiveMatches("text"),
                ocr  : ProgressiveMatches("ocr")]
    /\ hOut = <<>>
    /\ tasks = <<>>
    /\ batch = NoBatch

ApplyProgressive ==
    /\ hPc = "drawn"
    /\ hPc' = "applied"
    /\ LET o1 == [kind |-> "ok", has_tables |-> TRUE, rows |-> hIn.rows, error |-> ""]
           o2 == [kind |-> "ok", has_text |-> TRUE, matches |-> hIn.text, error |-> ""]
           o3 == [kind |-> "ok", has_text |-> TRUE, matches |-> hIn.ocr, error |-> ""]
           r1 == extract_pdf_stage1(o1, InitialResults)
           r2 == extract_pdf_stage2(o2, r1)
           ocr_run == ocr_needed(r2)
           r3 == IF ocr_run THEN extract_pdf_stage3(o3, r2) ELSE r2
           found_text == extract_from_text(hIn.text, TextModifier, "text")
       IN  hOut' = [produced |->
                        [tables |-> extract_from_tables(hIn.rows),
                         text |-> found_text,
                         ocr |-> IF ocr_run
                                 THEN extract_from_text(hIn.ocr, OcrModifier, "ocr")
                                 ELSE <<>>],
                    call |-> merge_call(r1.lab_values, found_text),
                    merged |-> r3.lab_values,
                    final |-> Finalize(r3).lab_values]
    /\ UNCHANGED <<hIn, pipelineVars, batchVars>>

NextProgressive == ApplyProgressive

SpecProgressive == InitProgressive /\ [][NextProgressive]_vars

(***************************************************************************)
(* A sixth specification for convert_to_standard_unit on its own: a value  *)
(* of a test, in a unit that is a key of the conversion matrix of the      *)
(* test's family, is converted to the test's standard unit.                *)
(***************************************************************************)
\* the largest number of tenths of a unit drawn as a value
MaxConvert == 10

\* the tests drawn: those of the pipeline's catalog that have a family,
\* and two thyroid hormones
ConverterTests == ConvertibleTests \cup {"t3", "t4"}

ConvertInputs ==
    UNION {{[test_name |-> t, unit |-> u, value |-> k * 100] :
                u \in FamilyUnits(get_conversion_category(t)),
                k \in 1..MaxConvert} : t \in ConverterTests}

InitConvert ==
    /\ pc = "idle"
    /\ file_type = "application/pdf"
    /\ fileExists = TRUE
    /\ results = InitialResults
    /\ stageOutcome = NoOutcomes
    /\ yielded = NoYield
    /\ hPc = "drawn"
    /\ hIn \in ConvertInputs
    /\ hOut = <<>>
    /\ tasks = <<>>
    /\ batch = NoBatch

ApplyConvert ==
    /\ hPc = "drawn"
    /\ hPc' = "applied"
    /\ hOut' = convert_to_standard_unit(hIn.test_name, hIn.value, hIn.unit)
    /\ UNCHANGED <<hIn, pipelineVars, batchVars>>

NextConvert == ApplyConvert

SpecConvert == InitConvert /\ [][NextConvert]_vars

(***************************************************************************)
(* A seventh specification for LabMapper._identify_table_columns on its    *)
(* own: a header row and a rectangular data grid are drawn and the column  *)
(* roles computed.  Column indices count from 0 as in the code.            *)
(***************************************************************************)
\* the largest number of columns of a table drawn
MaxCols == 2
\* the largest number of data rows of a table drawn
MaxRows == 2

\* None as a column index
NoCol == -1

\* header texts: with a test indicator ('test', 'name'), with a value
\* indicator ('result'), with a unit indicator ('unit'), with two of them,
\* with none
HeaderTexts ==
    {"Test Name", "Result", "Units", "Test Result", "Result Units", "Reference"}

\* any(indicator in header.lower() for indicator in test_indicators)
has_test_indicator(header) == header \in {"Test Name", "Test Result"}
\* any(indicator in header.lower() for indicator in value_indicators)
has_value_indicator(header) == header \in {"Result", "Test Result", "Result Units"}
\* any(indicator in header.lower() for indicator in unit_indicators)
has_unit_indicator(header) == header \in {"Units", "Result Units"}

\* cell texts: empty, a number, a text holding a key of lab_patterns,
\* a text holding a unit token, any other text
CellTexts == {"", "95", "creatinine", "mg/dL", "normal"}

\* the if / elif chain that classifies a stripped, non-empty cell
cell_kind(cell) ==
    CASE cell = ""           -> "empty"
      [] cell = "95"         -> "numeric"
      [] cell = "creatinine" -> "test_name"
      [] cell = "mg/dL"      -> "unit"
      [] OTHER               -> "text"

\* any(indicator in header_lower for indicator in <the role's indicators>)
has_indicator(header, role) ==
    CASE role = "test" -> has_test_indicator(header)
      [] role = "value" -> has_value_indicator(header)
      [] role = "unit" -> has_unit_indicator(header)

\* for i, header in enumerate(headers): if ...: col = i; break
FirstHeader(headers, role) ==
    IF \E i \in 1..Len(headers) : has_indicator(headers[i], role)
    THEN (CHOOSE i \in 1..Len(headers) :
              /\ has_indicator(headers[i], role)
              /\ \A j \in 1..(i - 1) : ~has_indicator(headers[j], role)) - 1
    ELSE NoCol

\* col_data of column col_idx, and the number of its cells of a kind
col_data(data, col_idx) == [r \in 1..Len(data) |-> data[r][col_idx + 1]]
CountKind(cells, kind) == Cardinality({r \in 1..Len(cells) : cell_kind(cells[r]) = kind})
total_cells(cells) == Len(cells) - CountKind(cells, "empty")

\* one turn of the loop over the columns of _analyze_data_patterns:
\* count / total_cells > 0.7, 0.3, 0.5 compared on integers
analyze_column(cols, data, col_idx) ==
    LET cells == col_data(data, col_idx)
        total == total_cells(cells)
    IN  IF total = 0 THEN cols
        ELSE IF 10 * CountKind(cells, "numeric") > 7 * total
             THEN [cols EXCEPT !.value_col = col_idx]
        ELSE IF 10 * CountKind(cells, "test_name") > 3 * total
             THEN [cols EXCEPT !.test_col = col_idx]
        ELSE IF 10 * CountKind(cells, "unit") > 5 * total
             THEN [cols EXCEPT !.unit_col = col_idx]
        ELSE cols

RECURSIVE AnalyzeFrom(_, _, _)
AnalyzeFrom(cols, data, col_idx) ==
    IF col_idx >= Len(data[1]) THEN cols
    ELSE AnalyzeFrom(analyze_column(cols, data, col_idx), data, col_idx + 1)

NoColumns == [test_col |-> NoCol, value_col |-> NoCol, unit_col |-> NoCol]

\* _analyze_data_patterns
analyze_data_patterns(data) ==
    IF Len(data) < 2 THEN NoColumns ELSE AnalyzeFrom(NoColumns, data, 0)

\* the columns the headers name
header_columns(headers) ==
    [test_col  |-> FirstHeader(headers, "test"),
     value_col |-> FirstHeader(headers, "value"),
     unit_col  |-> FirstHeader(headers, "unit")]

\* if test_col is None or value_col is None
headers_fail(headers) ==
    header_columns(headers).test_col = NoCol \/ header_columns(headers).value_col = NoCol

\* _identify_table_columns
identify_table_columns(headers, data) ==
    IF headers_fail(headers) THEN analyze_data_patterns(data)
    ELSE header_columns(headers)

\* the tables drawn: n columns, no header row or one header per column,
\* one to MaxRows data rows of n cells
ColumnInputs ==
    UNION {[headers : {<<>>} \cup [1..n -> HeaderTexts],
            data : UNION {[1..m -> [1..n -> CellTexts]] : m \in 1..MaxRows}] :
               n \in 2..MaxCols}

InitColumns ==
    /\ pc = "idle"
    /\ file_type = "application/pdf"
    /\ fileExists = TRUE
    /\ results = InitialResults
    /\ stageOutcome = NoOutcomes
    /\ yielded = NoYield
    /\ hPc = "drawn"
    /\ hIn \in ColumnInputs
    /\ hOut = <<>>
    /\ tasks = <<>>
    /\ batch = NoBatch

ApplyColumns ==
    /\ hPc = "drawn"
    /\ hPc' = "applied"
    /\ hOut' = identify_table_columns(hIn.headers, hIn.data)
    /\ UNCHANGED <<hIn, pipelineVars, batchVars>>

NextColumns == ApplyColumns

SpecColumns == InitColumns /\ [][NextColumns]_vars

(***************************************************************************)
(* An eighth specification for OCREngine._calculate_confidence on its own: *)
(* the token lists of pytesseract.image_to_data and a threshold are drawn. *)
(* Token confidences are Tesseract's integers (-1 for an entry that is not *)
(* a word, 0..100 for a word); thresholds are in hundredths.               *)
(***************************************************************************)
\* the largest number of entries of ocr_data drawn
MaxTokens == 3

\* the entries drawn: one that is not a word (confidence -1, no text) and
\* words of confidence 0, 30 or 80 whose text is blank or not
WordConfs == {0, 30, 80}
WordTexts == {" ", "Glucose"}
Tokens == {[conf |-> -1, text |-> ""]} \cup [conf : WordConfs, text : WordTexts]

\* text.strip()
Strip(text) == IF text = " " THEN "" ELSE text

\* confidence_threshold: the default 0.5 and a stricter 0.8
OcrThresholds == {50, 80}

RECURSIVE SumSeq(_)
SumSeq(s) == IF s = <<>> THEN 0 ELSE s[1] + SumSeq(Tail(s))

\* [int(conf) for conf in ocr_data['conf'] if int(conf) > 0]
PositiveConfs(confs) == SelectSeq(confs, LAMBDA c : c > 0)

\* the loop over the entries of _calculate_confidence from entry i on:
\* acc holds high_confidence_text and low_confidence_regions
RECURSIVE ConfidenceLoop(_, _, _, _)
ConfidenceLoop(acc, ocr_data, threshold, i) ==
    IF i > Len(ocr_data.conf) THEN acc
    ELSE LET conf_score == ocr_data.conf[i]
             text == Strip(ocr_data.text[i])
             next == IF text # "" /\ conf_score >= threshold
                     THEN [acc EXCEPT !.high_confidence_text = Append(@, text)]
                     ELSE IF text # "" /\ conf_score < threshold
                     THEN [acc EXCEPT !.low_confidence_regions =
                              Append(@, [text |-> text, confidence |-> conf_score,
                                         bbox |-> ocr_data.bbox[i]])]
                     ELSE acc
         IN  ConfidenceLoop(next, ocr_data, threshold, i + 1)

\* _calculate_confidence; average_confidence is the exact fraction
\* sum / (100 * len), confidence of a region in hundredths
calculate_confidence(ocr_data, threshold) ==
    LET confidences == PositiveConfs(ocr_data.conf)
        lists == ConfidenceLoop([high_confidence_text |-> <<>>,
                                 low_confidence_regions |-> <<>>],
                                ocr_data, threshold, 1)
    IN  IF confidences = <<>>
        THEN [average_confidence |-> [num |-> 0, den |-> 1],
              high_confidence_text |-> <<>>,
              low_confidence_regions |-> <<>>]
        ELSE [average_confidence |-> [num |-> SumSeq(confidences),
                                      den |-> 100 * Len(confidences)],
              high_confidence_text |-> lists.high_confidence_text,
              low_confidence_regions |-> lists.low_confidence_regions]

\* ocr_data: parallel lists; entry i has the bounding box i
OcrInputs ==
    UNION {[ocr_data : {[conf |-> [i \in 1..n |-> ts[i].conf],
                         text |-> [i \in 1..n |-> ts[i].text],
                         bbox |-> [i \in 1..n |-> i]] : ts \in [1..n -> Tokens]},
            threshold : OcrThresholds] : n \in 0..MaxTokens}

InitOcr ==
    /\ pc = "idle"
    /\ file_type = "application/pdf"
    /\ fileExists = TRUE
    /\ results = InitialResults
    /\ stageOutcome = NoOutcomes
    /\ yielded = NoYield
    /\ hPc = "drawn"
    /\ hIn \in OcrInputs
    /\ hOut = <<>>
    /\ tasks = <<>>
    /\ batch = NoBatch

ApplyOcr ==
    /\ hPc = "drawn"
    /\ hPc' = "applied"
    /\ hOut' = calculate_confidence(hIn.ocr_data, hIn.threshold)
    /\ UNCHANGED <<hIn, pipelineVars, batchVars>>

NextOcr == ApplyOcr

SpecOcr == InitOcr /\ [][NextOcr]_vars

(***************************************************************************)
(* A ninth specification for LabMapper.extract_from_text on its own: the   *)
(* regex matches of a text are drawn, and the text is either the text      *)
(* layer of a PDF (confidence_modifier 1.0) or an OCR transcript (0.8).    *)
(***************************************************************************)
\* the largest number of regex matches drawn
MaxMatches == 2

\* The number 9999999 read for a test.  In thousandths it is beyond TLC's
\* 32-bit integers; it is represented by 2 000 000 units, which every
\* comparison the code makes with the number (lab_mapper.py:424, 613-627)
\* orders as it orders 9999999.
HugeValue == 2000000000

\* the numbers a match may carry for a test: what the text layer reads, what
\* the OCR transcript reads, and for glucose_fasting the huge number
MatchValues(t) ==
    {Reading("text", t).value, Reading("ocr", t).value}
        \cup (IF t = "glucose_fasting" THEN {HugeValue} ELSE {})

DrawnMatches ==
    UNION {[test_name : {t}, pattern : PatternIdx(t),
            context : {BareContext, RichContext("text", t)},
            value : MatchValues(t)] : t \in Tests}

\* the match lists re.finditer can yield, in catalog and pattern order
DrawnMatchLists ==
    {s \in SeqsUpTo(DrawnMatches, MaxMatches) :
        \A i \in 1..Len(s) - 1 :
            \/ TestIndex(s[i].test_name) < TestIndex(s[i + 1].test_name)
            \/ /\ s[i].test_name = s[i + 1].test_name
               /\ s[i].pattern <= s[i + 1].pattern}

\* the confidence_modifier of the call: _extract_with_ocr passes 0.8, the
\* text stage of _extract_pdf the default
modifier_of(stage) == IF stage = "ocr" THEN OcrModifier ELSE TextModifier

InitText ==
    /\ pc = "idle"
    /\ file_type = "application/pdf"
    /\ fileExists = TRUE
    /\ results = InitialResults
    /\ stageOutcome = NoOutcomes
    /\ yielded = NoYield
    /\ hPc = "drawn"
    /\ hIn \in [matches : DrawnMatchLists, stage : {"text", "ocr"}]
    /\ hOut = <<>>
    /\ tasks = <<>>
    /\ batch = NoBatch

ApplyText ==
    /\ hPc = "drawn"
    /\ hPc' = "applied"
    /\ hOut' = extract_from_text(hIn.matches, modifier_of(hIn.stage), hIn.stage)
    /\ UNCHANGED <<hIn, pipelineVars, batchVars>>

NextText == ApplyText

SpecText == InitText /\ [][NextText]_vars

(***************************************************************************)
(* A tenth specification for UnitConverter._normalize_unit on its own: a   *)
(* unit spelling and a test are drawn; the spelling is normalized once and *)
(* twice, and the test's standard unit is normalized as                    *)
(* convert_to_standard_unit does before it compares the two.               *)
(***************************************************************************)
\* the keys of the unit_mappings dict
UnitKeys ==
    {"mg/dl", "mgdl", "mg%", "g/dl", "gdl", "g%", "ug/dl", "ugdl", "mcg/dl",
     "ng/dl", "ngdl", "mmol/l", "mmoll", "umol/l", "umoll", "μmol/l",
     "nmol/l", "nmoll", "pmol/l", "pmoll", "miu/l", "miul", "u/l", "ul",
     "iu/l", "iul", "k/ul", "k/μl", "thousand/ul", "thousand/μl", "percent",
     "percentage", "ng/ml", "ngml", "pg/ml", "pgml"}

\* the tests of the standard-units table that the model holds
StandardTests == {"glucose_fasting", "hba1c", "creatinine", "tsh", "t3", "t4"}

\* the spellings drawn: the keys, the spellings of the standard-units table
\* and of the conversion matrices, and spellings with capitals or spaces
UnitSpellings ==
    UnitKeys
    \cup {standard_units(t) : t \in StandardTests}
    \cup {"g/dL", "U/L", "K/μL", "mmol/L", "μmol/L", "umol/L", "nmol/L",
          "pmol/L", "ng/mL", "pg/mL", "ug/dL", "g/L"}
    \cup {"mg / dL", "MG/DL", "Percent"}

InitUnits ==
    /\ pc = "idle"
    /\ file_type = "application/pdf"
    /\ fileExists = TRUE
    /\ results = InitialResults
    /\ stageOutcome = NoOutcomes
    /\ yielded = NoYield
    /\ hPc = "drawn"
    /\ hIn \in [unit : UnitSpellings, test_name : StandardTests]
    /\ hOut = <<>>
    /\ tasks = <<>>
    /\ batch = NoBatch

ApplyUnits ==
    /\ hPc = "drawn"
    /\ hPc' = "applied"
    /\ hOut' = [once |-> normalize_unit(hIn.unit),
                twice |-> normalize_unit(normalize_unit(hIn.unit)),
                normalized_standard |-> normalize_unit(standard_units(hIn.test_name))]
    /\ UNCHANGED <<hIn, pipelineVars, batchVars>>

NextUnits == ApplyUnits

SpecUnits == InitUnits /\ [][NextUnits]_vars

(***************************************************************************)
(* Properties.                                                             *)
(***************************************************************************)
Done == pc = "done"

LabValues == results.lab_values

\* C1: in the result extract_document returns, lab_values holds at most one
\* entry per test_name, whatever the table, text and OCR stages produced.
C1_UniqueTestNames ==
    Done => \A i, j \in 1..Len(LabValues) :
                i # j => LabValues[i].test_name # LabValues[j].test_name

\* C1 witness: a finished PDF extraction in which a text candidate stands
\* before a table candidate, so it took the place of the table's candidate
\* for the same test.
C1_Witness ==
    /\ Done
    /\ \E i, j \in 1..Len(LabValues) :
          /\ i < j
          /\ LabValues[i].stage = "text"
          /\ LabValues[j].stage = "tables"

\* C2: every lab value of a returned result has a confidence within [0, 1]
\* (0..1000 thousandths), whatever accuracy the tables carried.
C2_ConfidenceInUnitInterval ==
    Done => \A i \in 1..Len(LabValues) :
                /\ 0 <= LabValues[i].confidence
                /\ LabValues[i].confidence <= MaxConfidence

\* C3: in the PDF pipeline OCR is invoked only when the set merged after the
\* text stage is empty or its provisional overall confidence is below 0.5.
C3_OcrOnlyWhenNeeded ==
    pc = "await_ocr" =>
        \/ LabValues = <<>>
        \/ calculate_overall_confidence(LabValues) < OcrThreshold

\* the candidate of the higher confidence
Higher(a, b) == IF a.confidence > b.confidence THEN a ELSE b

\* C4: two candidates for one test with different confidences: merging and
\* de-duplicating keep the one of higher confidence in both orders of arrival.
C4_MergeOrderIndependent ==
    (/\ hPc = "applied"
     /\ hIn.a.test_name = hIn.b.test_name
     /\ hIn.a.confidence # hIn.b.confidence)
    => /\ hOut.ab = <<Higher(hIn.a, hIn.b)>>
       /\ hOut.ba = <<Higher(hIn.a, hIn.b)>>
       /\ hOut.dab = <<Higher(hIn.a, hIn.b)>>
       /\ hOut.dba = <<Higher(hIn.a, hIn.b)>>

\* C4 witness: a table candidate and a text candidate of higher confidence
\* for the same test, merged in both orders; the text candidate is kept.
C4_Witness ==
    /\ hPc = "applied"
    /\ hIn.a.test_name = hIn.b.test_name
    /\ hIn.a.stage = "tables"
    /\ hIn.b.stage = "text"
    /\ hIn.a.confidence < hIn.b.confidence
    /\ hOut.ab = <<hIn.b>>
    /\ hOut.ba = <<hIn.b>>

\* the stage an entry of the errors list is about
ErrorStage(e) ==
    CASE e.kind \in {"OCR error", "OCR failed to extract readable text"} -> "ocr"
      [] e.kind = "PDF extraction error" /\ e.cause = "table stage exception" -> "tables"
      [] e.kind = "PDF extraction error" /\ e.cause = "text stage exception" -> "text"
      [] OTHER -> "input"

Stages == {"tables", "text", "ocr"}

\* C5: a stage that failed locally (its body raised and was caught, or its
\* library is unavailable) has an entry in the errors list of the result.
C5_StageFailuresRecorded ==
    Done => \A st \in Stages :
                stageOutcome[st] \in {"error", "unavailable"}
                => \E i \in 1..Len(results.errors) : ErrorStage(results.errors[i]) = st

\* C6: extract_document never raises to its caller, whatever the media type
\* and whatever the stages return or throw.
C6_NeverRaises == pc # "raised"

\* C6 witness: an extraction in which a stage call threw has returned a result.
C6_Witness ==
    /\ Done
    /\ \E st \in Stages : stageOutcome[st] = "raises"
    /\ results.errors # <<>>

Unsupported == ~IsPdf(Lower(file_type)) /\ ~IsImage(Lower(file_type))

\* C7: unsupported media type or unreadable file: the result has no lab
\* values, confidence 0, requires_manual_review, and the causing error in
\* its errors list.
C7_MalformedInputFails ==
    (Done /\ (Unsupported \/ ~fileExists)) =>
        /\ LabValues = <<>>
        /\ results.confidence = 0
        /\ results.requires_manual_review
        /\ \E i \in 1..Len(results.errors) :
              IF Unsupported
              THEN results.errors[i].kind = "Unsupported file type"
              ELSE results.errors[i].cause = "FileNotFoundError"

\* C8: requires_manual_review is true exactly when the overall confidence is
\* below 0.7 or the errors list is not empty.
C8_ReviewIffLowOrErrors ==
    Done => (results.requires_manual_review
                <=> (results.confidence < 700 \/ results.errors # <<>>))

\* C8 witness: a result of confidence 0.7 or more that is sent to review
\* because an error was recorded.
C8_Witness ==
    /\ Done
    /\ results.confidence >= 700
    /\ results.errors # <<>>
    /\ results.requires_manual_review

\* C9 as claimed: the overall confidence equals the mean of the surviving
\* confidences, times 1.1 capped at 1.0 from three values on, 0 for none.
C9_ExactMean ==
    LET n == Len(LabValues)
        total == SumConfidence(LabValues)
    IN  Done =>
          IF n = 0 THEN results.confidence = 0
          ELSE IF n < 3 THEN results.confidence * n = total
          ELSE IF 11 * total >= 10000 * n THEN results.confidence = 1000
          ELSE results.confidence * 10 * n = 11 * total

\* C9 amended: the overall confidence is that figure rounded to three
\* decimals: it lies within half a thousandth of it.
C9_RoundedMean ==
    LET n == Len(LabValues)
        total == SumConfidence(LabValues)
        Abs(x) == IF x < 0 THEN -x ELSE x
    IN  Done =>
          IF n = 0 THEN results.confidence = 0
          ELSE IF n < 3 THEN 2 * Abs(results.confidence * n - total) <= n
          ELSE IF 11 * total >= 10000 * n THEN results.confidence = 1000
          ELSE 2 * Abs(results.confidence * 10 * n - 11 * total) <= 10 * n

\* C9 witness: three surviving values whose boosted mean is below the cap
\* and is no whole number of thousandths.
C9_Witness ==
    /\ Done
    /\ Len(LabValues) >= 3
    /\ results.confidence < 1000
    /\ results.confidence * 10 * Len(LabValues) # 11 * SumConfidence(LabValues)

\* C10: a lab value still in a non-canonical unit after normalization is not
\* compared against the canonical-unit range: its is_abnormal is unknown.
C10_AbnormalOnlyInCanonicalUnit ==
    Done => \A i \in 1..Len(LabValues) :
                normalize_unit(LabValues[i].unit)
                    # normalize_unit(standard_units(LabValues[i].test_name))
                => LabValues[i].is_abnormal = "None"

\* C11: a lab value of the returned result for whose unit the normalization
\* found no conversion factor carries an explicit mark that it is unconverted
\* (a "converted" entry that is set, here to False).
C11_UnconvertedIsFlagged ==
    Done => \A i \in 1..Len(LabValues) :
                ~convert_to_standard_unit(LabValues[i].test_name, LabValues[i].value,
                                          LabValues[i].unit).ok
                => LabValues[i].converted = "False"

\* C12: a value converted from a unit A of its family to the standard unit B
\* and back to A with the inverse factor comes back within the rounding
\* tolerance of the test's precision: half a step of the last decimal kept
\* for the test, taken in B and carried into A by the inverse factor (or
\* half a step in A itself where that is wider).
C12_RoundTripWithinTolerance ==
    (hPc = "applied" /\ hOut.there.ok /\ hOut.back.ok) =>
        LET f_back == conversion_factors(get_conversion_category(hIn.test_name),
                                         normalize_unit(hOut.there.unit),
                                         normalize_unit(hIn.unit)).factor
            \* the distance to the original, in units of 1 / den thousandths
            diff == hOut.back.num - hIn.value * hOut.back.den
            Abs(x) == IF x < 0 THEN -x ELSE x
        IN  IF hOut.back.den = 1 THEN diff = 0
            ELSE 2 * Abs(diff) <= PrecisionStep(hIn.test_name) * Max(10000, f_back)

InFlight(t) == t.pc \notin {"created", "done", "raised"}

\* C14: during extract_batch at most 3 extract_document calls are in flight
\* at any moment, whatever the number of documents.
C14_AtMostThreeInFlight ==
    Cardinality({k \in 1..Len(tasks) : InFlight(tasks[k])}) <= 3

\* C14 witness: a batch of more than 3 documents with 3 calls in flight and
\* a fourth one created and waiting for its chunk.
C14_Witness ==
    /\ Len(tasks) > 3
    /\ Cardinality({k \in 1..Len(tasks) : InFlight(tasks[k])}) = 3
    /\ \E k \in 1..Len(tasks) : tasks[k].pc = "created"

\* C15: extract_batch returns one result per document, result k being the
\* outcome of document k whatever the order of completion; every call ran to
\* its end; a document whose extraction raised (unsupported media type) is a
\* failed entry at its own position: no lab values, confidence 0,
\* requires_manual_review, the error recorded.
C15_BatchResultsInOrder ==
    batch.pc = "returned" =>
        /\ Len(batch.processed_results) = Len(batch.files)
        /\ \A k \in 1..Len(batch.files) :
              /\ tasks[k].doc = batch.files[k]
              /\ tasks[k].pc = "done"
              /\ batch.processed_results[k] = tasks[k].results
              /\ tasks[k].doc.file_type = "text/plain" =>
                    /\ batch.processed_results[k].lab_values = <<>>
                    /\ batch.processed_results[k].confidence = 0
                    /\ batch.processed_results[k].requires_manual_review
                    /\ batch.processed_results[k].errors
                          = <<Error("Unsupported file type", "text/plain")>>

\* C15 witness: a returned batch in which the last document of a chunk ended
\* first, one document failed and another one yielded lab values.
C15_Witness ==
    /\ batch.pc = "returned"
    /\ Len(batch.finished) > 1
    /\ batch.finished[1] > batch.finished[Len(batch.finished)]
    /\ \E k \in 1..Len(batch.files) : batch.processed_results[k].method = "failed"
    /\ \E k \in 1..Len(batch.files) : batch.processed_results[k].lab_values # <<>>

\* the call of a stage has come back with a value
StageReturned(st) == stageOutcome[st] \notin {"none", "raises"}

\* the call of a stage has been made and is over
StageOver(st) == stageOutcome[st] # "none"

\* C16: in a PDF extraction the stages run one after the other in the order
\* table, text, OCR, normalization: a stage is awaited only when the stages
\* before it have returned and none after it has run, the text stage is run
\* whenever the table stage has returned, and normalization and the overall
\* confidence come only after the last stage.
C16_StagesSequential ==
    /\ pc = "await_tables" =>
          ~StageOver("tables") /\ ~StageOver("text") /\ ~StageOver("ocr")
    /\ pc = "await_text" =>
          StageReturned("tables") /\ ~StageOver("text") /\ ~StageOver("ocr")
    /\ pc = "await_ocr" =>
          StageReturned("tables") /\ StageReturned("text") /\ ~StageOver("ocr")
    /\ (Done /\ IsPdf(Lower(file_type)) /\ StageReturned("tables")) => StageOver("text")
    /\ pc \in {"await_tables", "await_text", "await_ocr"} =>
          /\ results.confidence = 0
          /\ ~results.requires_manual_review
          /\ \A i \in 1..Len(LabValues) : LabValues[i].converted = "absent"

\* C16 witness: a PDF whose table stage yielded a value, whose text stage was
\* run all the same and whose OCR stage came last; the values are normalized
\* in the result.
C16_Witness ==
    /\ Done
    /\ IsPdf(Lower(file_type))
    /\ stageOutcome = [tables |-> "ok", text |-> "ok", ocr |-> "ok"]
    /\ \E i \in 1..Len(LabValues) :
          LabValues[i].stage = "tables" /\ LabValues[i].converted = "True"
    /\ \E i \in 1..Len(LabValues) : LabValues[i].stage = "text"
    /\ results.confidence > 0

\* C17: in the result of a PDF extraction method names a stage that yielded
\* lab values: camelot only if the table stage yielded one, pdfplumber only
\* if the table stage yielded none and the text stage one, ocr only if
\* neither of them yielded any and the OCR stage one.
C17_MethodNamesYieldingStage ==
    (Done /\ IsPdf(Lower(file_type))) =>
        /\ results.method = "camelot" => yielded.tables
        /\ results.method = "pdfplumber" => ~yielded.tables /\ yielded.text
        /\ results.method = "ocr" =>
              ~yielded.tables /\ ~yielded.text /\ yielded.ocr

\* the stages that were run, in the order of their run, under the names the
\* result gives them
StagesRun ==
    IF IsImage(Lower(file_type))
    THEN IF StageOver("ocr") THEN <<"image_ocr">> ELSE <<>>
    ELSE (IF StageOver("tables") THEN <<"camelot_tables">> ELSE <<>>)
         \o (IF StageOver("text") THEN <<"pdfplumber_text">> ELSE <<>>)
         \o (IF StageOver("ocr") THEN <<"ocr_fallback">> ELSE <<>>)

\* C18: extraction_stages of the result lists, in execution order, exactly
\* the stages that were run, those that produced nothing included.
C18_StagesListedAsRun ==
    Done => results.extraction_stages = StagesRun

\* what the stages produced, in the order of arrival: table, text, OCR
Arrival == hOut.produced.tables \o hOut.produced.text \o hOut.produced.ocr

\* the arrival that has to survive for a test: the first one among those of
\* the highest confidence
Survivor(t) ==
    LET of_t == {i \in 1..Len(Arrival) : Arrival[i].test_name = t}
        best == {i \in of_t : \A j \in of_t : Arrival[j].confidence <= Arrival[i].confidence}
    IN  Arrival[CHOOSE i \in best : \A j \in best : i <= j]

TestNames(values) == {values[i].test_name : i \in 1..Len(values)}

\* C19: after the progressive merging of table, text and OCR candidates the
\* one kept for a test has a confidence at least as high as every candidate
\* produced for the test, and among those of the highest confidence it is
\* the first that arrived; normalization leaves its confidence and origin.
C19_SurvivorIsEarliestBest ==
    hPc = "applied" =>
        \A t \in TestNames(Arrival) :
            /\ \E i \in 1..Len(hOut.merged) : hOut.merged[i] = Survivor(t)
            /\ \E i \in 1..Len(hOut.final) :
                  /\ hOut.final[i].test_name = t
                  /\ hOut.final[i].stage = Survivor(t).stage
                  /\ hOut.final[i].confidence = Survivor(t).confidence
                  /\ \A j \in 1..Len(Arrival) :
                        Arrival[j].test_name = t
                        => Arrival[j].confidence <= hOut.final[i].confidence

\* C19 witness: the text stage produced a candidate of the same confidence as
\* the table's for a test, and the OCR stage one of lower confidence: the
\* table's candidate is the one in the result.
C19_Witness ==
    /\ hPc = "applied"
    /\ \E a \in 1..Len(hOut.produced.tables), b \in 1..Len(hOut.produced.text),
          c \in 1..Len(hOut.produced.ocr), i \in 1..Len(hOut.final) :
          /\ hOut.produced.tables[a].test_name = hOut.produced.text[b].test_name
          /\ hOut.produced.tables[a].test_name = hOut.produced.ocr[c].test_name
          /\ hOut.produced.tables[a].confidence = hOut.produced.text[b].confidence
          /\ hOut.produced.ocr[c].confidence < hOut.produced.tables[a].confidence
          /\ hOut.final[i].test_name = hOut.produced.tables[a].test_name
          /\ hOut.final[i].stage = "tables"

MatrixEntry ==
    conversion_factors(get_conversion_category(hIn.test_name), hIn.unit,
                       standard_units(hIn.test_name))

\* C21: whenever the matrix of the test's family holds a factor from the
\* source unit to the test's standard unit (another unit than the source),
\* convert_to_standard_unit does not return None: it returns the value times
\* that factor rounded to the test's precision, in the standard unit and
\* tagged converted = True.
C21_ConvertsWhenMatrixHoldsFactor ==
    (hPc = "applied" /\ MatrixEntry.found
                     /\ hIn.unit # standard_units(hIn.test_name)) =>
        /\ hOut.ok
        /\ hOut.converted = "True"
        /\ hOut.unit = standard_units(hIn.test_name)
        /\ hOut.value = ConvertAndRound(hIn.test_name, hIn.value, MatrixEntry)

\* the columns of the table drawn, and whether column c holds the highest
\* fraction of cells of a kind among the columns whose fraction of that
\* kind exceeds num / 10
GridColumns == 0..(Len(hIn.data[1]) - 1)

Qualifies(c, kind, num) ==
    LET cells == col_data(hIn.data, c)
    IN  total_cells(cells) > 0
        /\ 10 * CountKind(cells, kind) > num * total_cells(cells)

HighestQualifying(c, kind, num) ==
    IF c = NoCol THEN \A d \in GridColumns : ~Qualifies(d, kind, num)
    ELSE /\ Qualifies(c, kind, num)
         /\ \A d \in GridColumns : Qualifies(d, kind, num) =>
                CountKind(col_data(hIn.data, c), kind) * total_cells(col_data(hIn.data, d))
                  >= CountKind(col_data(hIn.data, d), kind) * total_cells(col_data(hIn.data, c))

\* C22: when the headers do not identify the test and value columns and the
\* data has at least two rows, the value column is a column with the highest
\* numeric fraction among those above 0.7, the name column one with the
\* highest test-name fraction among those above 0.3, the unit column one
\* with the highest unit-token fraction among those above 0.5 (None when no
\* column is above the threshold).
C22_InferencePicksHighestFraction ==
    (hPc = "applied" /\ headers_fail(hIn.headers) /\ Len(hIn.data) >= 2) =>
        /\ HighestQualifying(hOut.value_col, "numeric", 7)
        /\ HighestQualifying(hOut.test_col, "test_name", 3)
        /\ HighestQualifying(hOut.unit_col, "unit", 5)

\* C28: whenever _identify_table_columns returns a name column and a value
\* column they are different columns, and the unit column, when there is
\* one, differs from both.
C28_ColumnRolesDistinct ==
    (hPc = "applied" /\ hOut.test_col # NoCol /\ hOut.value_col # NoCol) =>
        /\ hOut.test_col # hOut.value_col
        /\ hOut.unit_col # NoCol =>
               hOut.unit_col \notin {hOut.test_col, hOut.value_col}

\* C23: every entry of ocr_data with non-empty text and a confidence below
\* the threshold is in low_confidence_regions with its text and its
\* bounding box.
C23_LowConfidenceTokensKept ==
    hPc = "applied" =>
        \A i \in 1..Len(hIn.ocr_data.conf) :
            (Strip(hIn.ocr_data.text[i]) # "" /\ hIn.ocr_data.conf[i] < hIn.threshold) =>
                \E k \in 1..Len(hOut.low_confidence_regions) :
                    /\ hOut.low_confidence_regions[k].bbox = hIn.ocr_data.bbox[i]
                    /\ hOut.low_confidence_regions[k].text = Strip(hIn.ocr_data.text[i])

\* C24: every lab value extract_from_text returns, for the text layer and
\* for an OCR transcript with the modifier 0.8, has a confidence within
\* [0.1, 1.0].
C24_TextConfidenceInRange ==
    hPc = "applied" =>
        \A i \in 1..Len(hOut) :
            MinTextConfidence <= hOut[i].confidence /\ hOut[i].confidence <= MaxConfidence

\* an OCR transcript whose only match is penalised as implausible and has no
\* boost: 0.2 * 0.8
C24_Witness ==
    /\ hPc = "applied"
    /\ hIn.stage = "ocr"
    /\ Len(hOut) = 1
    /\ hOut[1].confidence = 160

\* C25: a lab value of glucose_fasting with the number 9999999 that
\* extract_from_text returns has a confidence below 0.5, whatever the
\* context of its match.
C25_ImplausibleValueRejected ==
    hPc = "applied" =>
        \A i \in 1..Len(hOut) :
            (hOut[i].test_name = "glucose_fasting" /\ hOut[i].value = HugeValue) =>
                hOut[i].confidence < OcrThreshold

\* a stage is invoked once the coroutine awaits it or it is over
Invoked(st) ==
    \/ StageOver(st)
    \/ st = "text" /\ pc = "await_text"
    \/ st = "ocr" /\ pc \in {"await_ocr", "await_image_ocr"}

\* C26: in the PDF pipeline on a file that does not exist, once a stage has
\* come back with the file-not-found error no later stage is invoked: not
\* the text stage nor OCR after the table stage, not OCR after the text
\* stage.
C26_MissingFileShortCircuits ==
    (IsPdf(Lower(file_type)) /\ ~fileExists) =>
        /\ stageOutcome.tables = "error" => ~Invoked("text") /\ ~Invoked("ocr")
        /\ stageOutcome.text = "error" => ~Invoked("ocr")

\* C27: normalizing a unit spelling twice gives what normalizing it once
\* gives, and a spelling that unit_mappings maps to the standard unit of the
\* test normalizes to what the standard unit normalizes to.
C27_NormalizeUnitIdempotent ==
    hPc = "applied" =>
        /\ hOut.twice = hOut.once
        /\ (hIn.unit \in UnitKeys
              /\ unit_mappings(hIn.unit) = standard_units(hIn.test_name)) =>
                 hOut.once = hOut.normalized_standard

\* the chunk tasks[k] belongs to, counted from 0
Chunk(k) == (k - 1) \div batch_size

\* the coroutine has been handed to gather (and may have started)
Started(t) == t.pc # "created"

\* C29: no coroutine of a later chunk is started before every coroutine of
\* the chunks before it has ended.
C29_ChunkBarrier ==
    \A j, k \in 1..Len(tasks) :
        (Chunk(k) < Chunk(j) /\ Started(tasks[j])) => Ended(tasks[k])

\* two documents of the first chunk have ended, the third is still in
\* flight and holds back the fourth
C29_Witness ==
    /\ Len(tasks) = 4
    /\ Ended(tasks[1]) /\ Ended(tasks[2])
    /\ InFlight(tasks[3])
    /\ ~Started(tasks[4])

\* C30: with every awaited stage call coming back, every extract_document
\* coroutine reaches its terminal result and the extract_batch call returns
\* with one result per document.
C30_Terminates ==
    <>(/\ batch.pc = "returned"
       /\ Len(batch.processed_results) = Len(batch.files)
       /\ \A k \in 1..Len(tasks) : tasks[k].pc = "done")

\* a batch of two chunks has returned, one of its documents having come to
\* its result through all three stages
C30_Witness ==
    /\ batch.pc = "returned"
    /\ Len(batch.processed_results) = 4
    /\ batch.i = 4
    /\ \E k \in 1..Len(tasks) :
           /\ tasks[k].pc = "done"
           /\ tasks[k].outcomes.tables.kind # "none"
           /\ tasks[k].outcomes.text.kind # "none"
           /\ tasks[k].outcomes.ocr.kind # "none"

====
